---- MODULE Spec2Model ----
(***************************************************************************)
(* A model of src/server/utils/dataLoader.ts: the content-API loaders      *)
(* (loadDocumentProps, loadPreviewDocumentProps, loadSiteProps), their     *)
(* error normaliser (handleNotOkResponse), the per-render memoised         *)
(* wrappers (loadDocumentPropsCached, loadPreviewDocumentPropsCached) and  *)
(* the header builders (buildNeosHeaders, buildNeosPreviewHeaders,         *)
(* applyProxyHeaders).                                                     *)
(*                                                                         *)
(* JavaScript values are tagged records (field t).  A string is a sequence *)
(* of tokens; the separator characters ":" and "/" are always tokens of    *)
(* their own, so that split, join and encodeURIComponent are computed on   *)
(* the text and not assumed.                                               *)
(***************************************************************************)
EXTENDS Integers, Sequences, FiniteSets, TLC

(* ------------------------------ bounds --------------------------------- *)

\* Direct loader calls made in one behaviour of Spec and SpecHeaders.
MaxLoads == 1

\* Calls of the memoised wrappers made in one render pass (SpecCached).
MaxCalls == 2

(* --------------------------- JavaScript values ------------------------- *)

Undefined == [t |-> "undefined"]

Null == [t |-> "null"]

Str(s) == [t |-> "string", v |-> s]

Arr(a) == [t |-> "array", v |-> a]

\* An options object: ref is its identity (two objects with equal fields are
\* still two objects), optional and cache are its fields (Undefined: not set).
Obj(ref, optional, cacheMode) ==
  [t |-> "object", ref |-> ref, optional |-> optional, cache |-> cacheMode]

True == [t |-> "boolean", v |-> TRUE]

False == [t |-> "boolean", v |-> FALSE]

\* !v of JavaScript.
Falsy(v) ==
  \/ v.t \in {"undefined", "null"}
  \/ v.t = "string" /\ v.v = <<>>
  \/ v.t = "boolean" /\ ~v.v

\* An Error of class name with message (a string of the model: a token
\* sequence); the fields a plain Error lacks are Undefined.
JsError(name, message) ==
  [t |-> "error", name |-> name, message |-> message, status |-> 0,
   url |-> Undefined, errors |-> Undefined, text |-> Undefined]

\* new ApiError(message, status, url, errors, text)
ApiError(message, status, url, errors, text) ==
  [t |-> "error", name |-> "ApiError", message |-> message, status |-> status,
   url |-> url, errors |-> errors, text |-> text]

\* How a function activation ends.
Return(v) == [completion |-> "return", value |-> v]

Throw(e) == [completion |-> "throw", value |-> e]

(* ------------------------------ strings -------------------------------- *)

RECURSIVE SplitFrom(_, _, _)
\* The segments of s cut at every token sep; cur is the segment being read.
SplitFrom(s, sep, cur) ==
  IF s = <<>> THEN <<cur>>
  ELSE IF Head(s) = sep THEN <<cur>> \o SplitFrom(Tail(s), sep, <<>>)
  ELSE SplitFrom(Tail(s), sep, Append(cur, Head(s)))

\* s.split(sep) : every separator cuts, empty segments are kept.
Split(s, sep) == SplitFrom(s, sep, <<>>)

RECURSIVE Join(_, _)
\* a.join(sep)
Join(a, sep) ==
  IF a = <<>> THEN <<>>
  ELSE IF Len(a) = 1 THEN a[1]
  ELSE a[1] \o <<sep>> \o Join(Tail(a), sep)

RECURSIVE NonEmpty(_)
\* a.filter((s) => s.length > 0)
NonEmpty(a) ==
  IF a = <<>> THEN <<>>
  ELSE IF Head(a) = <<>> THEN NonEmpty(Tail(a))
  ELSE <<Head(a)>> \o NonEmpty(Tail(a))

RECURSIVE encodeURIComponent(_)
\* Reserved characters are percent-encoded, everything else is kept.
encodeURIComponent(s) ==
  IF s = <<>> THEN <<>>
  ELSE (CASE Head(s) = "/" -> <<"%2F">>
          [] Head(s) = ":" -> <<"%3A">>
          [] OTHER -> <<Head(s)>>) \o encodeURIComponent(Tail(s))

(* ------------------------- process state ------------------------------- *)

VARIABLES
  env,          \* process.env: NEOS_BASE_URL and PUBLIC_BASE_URL
  incoming,     \* nextHeaders(): the incoming request's cookie, host, x-forwarded-proto
  calls,        \* the calls made so far: [fn, arg, opts, value, hit]
  invocations,  \* the activations of the async loaders (one promise each)
  requests,     \* the outbound fetches issued so far: [by, url, headers, cache]
  memo          \* React's per-render cache: entries [fn, args, value]

vars == <<env, incoming, calls, invocations, requests, memo>>

(* ------------------------ the Response of fetch ------------------------ *)

\* A Response as fetch resolves it: the body is a stream, read at most once.
Response(status, body) == [status |-> status, body |-> body, bodyUsed |-> FALSE]

\* response.ok
ResponseOk(response) == response.status >= 200 /\ response.status <= 299

\* The body texts of the model.
BodyErrors == <<"{\"errors\":[{\"message\":\"x\"}]}">>

BodyPayload == <<"{\"title\":\"t\"}">>

BodyNull == <<"null">>

BodyText == <<"oops">>

\* A decoded JSON object, by the two fields the loaders can tell apart.
Data(errors, title) == [t |-> "data", errors |-> errors, title |-> title]

\* JSON.parse on the body texts of the model.
JSONParse(text) ==
  CASE text = BodyErrors ->
         Return(Data(Arr(<<[message |-> <<"x">>]>>), Undefined))
    [] text = BodyPayload -> Return(Data(Undefined, Str(<<"t">>)))
    [] text = BodyNull -> Return(Null)
    [] OTHER -> Throw(JsError("SyntaxError", <<"Unexpected token">>))

\* response.json(): rejects when the body was read before, otherwise reads
\* the body (whether or not it then parses).
ResponseJson(response) ==
  IF response.bodyUsed
  THEN [response |-> response,
        result |-> Throw(JsError("TypeError", <<"Body is unusable">>))]
  ELSE [response |-> [response EXCEPT !.bodyUsed = TRUE],
        result |-> JSONParse(response.body)]

\* response.text()
ResponseText(response) ==
  IF response.bodyUsed
  THEN [response |-> response,
        result |-> Throw(JsError("TypeError", <<"Body is unusable">>))]
  ELSE [response |-> [response EXCEPT !.bodyUsed = TRUE],
        result |-> Return(Str(response.body))]

\* data.errors : a property read, which throws on null.
ReadErrors(data) ==
  IF data.t = "null"
  THEN Throw(JsError("TypeError", <<"Cannot read properties of null">>))
  ELSE Return(data.errors)

\* try { ... } catch (e) { } : whatever the block threw is dropped.
CatchAndIgnore(result) ==
  IF result.completion = "throw" THEN Return(Undefined) ELSE result

(* ------------------------- handleNotOkResponse ------------------------- *)

\* The try block, lines 100-104.
handleNotOkResponseTry(json, status, fetchUrl) ==
  IF json.completion = "throw" THEN json
  ELSE LET errors == ReadErrors(json.value) IN
       IF errors.completion = "throw" THEN errors
       ELSE IF ~Falsy(errors.value)
       THEN Throw(ApiError(<<"Content API responded with errors">>, status, fetchUrl,
                           errors.value, Undefined))
       ELSE Return(Undefined)

\* handleNotOkResponse with its fallback throw moved into the try block,
\* where the catch drops it: the function returns.
handleNotOkResponseSwallowsAll(response, fetchUrl) ==
  LET json == ResponseJson(response)
      text == ResponseText(json.response)
  IN  [response |-> text.response,
       result |-> CatchAndIgnore(
                    Throw(ApiError(<<"Content API responded with unexpected error">>,
                                   response.status, fetchUrl, Undefined, Undefined)))]

\* [response, result]: the response as the function leaves it and how the
\* function ends.
handleNotOkResponse(response, fetchUrl) ==
  LET json == ResponseJson(response)
      tried == CatchAndIgnore(
                 handleNotOkResponseTry(json.result, response.status, fetchUrl))
      text == ResponseText(json.response)
  IN  IF tried.completion = "throw"
      THEN [response |-> json.response, result |-> tried]
      ELSE IF text.result.completion = "throw"
      THEN [response |-> text.response, result |-> text.result]
      ELSE [response |-> text.response,
            result |-> Throw(ApiError(<<"Content API responded with unexpected error">>,
                                      response.status, fetchUrl, Undefined,
                                      text.result.value))]

(* --------------------------- header builders --------------------------- *)

\* A header map with no entry.
NoHeaders == [h \in {} |-> <<>>]

\* headers[name] = value
SetHeader(headers, name, value) == (name :> value) @@ headers

\* new URL(baseUrl) for an absolute URL  scheme://hostname[:port] : the
\* protocol keeps its colon and a scheme's default port reads as "".
URL(baseUrl) ==
  LET parts == Split(baseUrl, "/")
      authority == Split(parts[3], ":")
      protocol == parts[1]
      port == IF Len(authority) >= 2 THEN authority[2] ELSE <<>>
      default == IF protocol = <<"https", ":">> THEN <<"443">>
                 ELSE IF protocol = <<"http", ":">> THEN <<"80">>
                 ELSE <<>>
  IN  [protocol |-> protocol, hostname |-> authority[1],
       port |-> IF port = default THEN <<>> ELSE port]

applyProxyHeaders(headers, baseUrl) ==
  LET publicBaseUrl == URL(baseUrl)
      h1 == SetHeader(headers, "X-Forwarded-Host", publicBaseUrl.hostname)
      h2 == IF publicBaseUrl.port # <<>>
            THEN SetHeader(h1, "X-Forwarded-Port", publicBaseUrl.port)
            ELSE SetHeader(h1, "X-Forwarded-Port",
                           IF publicBaseUrl.protocol = <<"https", ":">>
                           THEN <<"443">> ELSE <<"80">>)
  IN  SetHeader(h2, "X-Forwarded-Proto",
                IF publicBaseUrl.protocol = <<"https", ":">>
                THEN <<"https">> ELSE <<"http">>)

\* Reads process.env.PUBLIC_BASE_URL.
buildNeosHeaders ==
  IF ~Falsy(env.PUBLIC_BASE_URL)
  THEN applyProxyHeaders(NoHeaders, env.PUBLIC_BASE_URL.v)
  ELSE NoHeaders

\* const [host, port] = _host.split(':') : the first two segments, the
\* second undefined when there is only one.
SplitHostPort(_host) ==
  LET parts == Split(_host, ":")
  IN  [host |-> parts[1],
       port |-> IF Len(parts) >= 2 THEN Str(parts[2]) ELSE Undefined]

\* Reads process.env.PUBLIC_BASE_URL and the incoming request's headers.
buildNeosPreviewHeaders ==
  LET cookie == incoming.cookie
      headers == SetHeader(NoHeaders, "Cookie",
                           IF cookie.t \in {"undefined", "null"} THEN <<>> ELSE cookie.v)
      _host == incoming.host
      _proto == incoming.proto
  IN  IF ~Falsy(env.PUBLIC_BASE_URL)
      THEN applyProxyHeaders(headers, env.PUBLIC_BASE_URL.v)
      ELSE IF ~Falsy(_host)
      THEN LET hp == SplitHostPort(_host.v)
               h1 == SetHeader(headers, "X-Forwarded-Host", hp.host)
           IN  IF ~Falsy(hp.port)
               THEN SetHeader(h1, "X-Forwarded-Port", hp.port.v)
               ELSE SetHeader(
                      SetHeader(h1, "X-Forwarded-Port",
                                IF _proto = Str(<<"https">>) THEN <<"443">> ELSE <<"80">>),
                      "X-Forwarded-Proto",
                      IF _proto.t = "string" THEN _proto.v ELSE <<"http">>)
      ELSE headers

(* ------------------------------ the loaders ---------------------------- *)

\* opts?.optional
OptsOptional(opts) == IF opts.t = "object" THEN opts.optional ELSE Undefined

\* opts?.cache ?? 'no-store'
OptsCache(opts) ==
  IF opts.t = "object" /\ opts.cache.t \notin {"undefined", "null"}
  THEN opts.cache ELSE Str(<<"no-store">>)

\* The synchronous part of a loader ends settled, or at its await of fetch.
Settled(result) ==
  [kind |-> "settled", result |-> result, url |-> Undefined,
   headers |-> NoHeaders, cache |-> Undefined]

Fetch(url, headers, cacheMode) ==
  [kind |-> "fetch", result |-> Return(Undefined), url |-> url,
   headers |-> headers, cache |-> cacheMode]

\* loadDocumentProps validating its slug before it reads NEOS_BASE_URL.
loadDocumentPropsValidatesFirst(params, opts) ==
  LET apiUrl == env.NEOS_BASE_URL
      slug == params.slug
      path == <<"/">> \o (IF ~Falsy(slug) /\ slug.t = "array"
                          THEN Join(slug.v, "/") ELSE slug.v)
  IN  IF slug.t # "string" /\ slug.t # "array"
      THEN Settled(Throw(JsError("Error", <<"Missing slug param">>)))
      ELSE IF Falsy(apiUrl) /\ ~Falsy(OptsOptional(opts))
      THEN Settled(Return(Undefined))
      ELSE IF Falsy(apiUrl)
      THEN Settled(Throw(JsError("Error", <<"Missing NEOS_BASE_URL environment variable">>)))
      ELSE Fetch(Str(apiUrl.v \o <<"/neos/content-api/document?path=">>
                     \o encodeURIComponent(path)),
                 buildNeosHeaders, OptsCache(opts))

\* Lines 14-39.
loadDocumentPropsUntilFetch(params, opts) ==
  LET apiUrl == env.NEOS_BASE_URL
      slug == params.slug
      path == <<"/">> \o (IF ~Falsy(slug) /\ slug.t = "array"
                          THEN Join(slug.v, "/") ELSE slug.v)
  IN  IF Falsy(apiUrl) /\ ~Falsy(OptsOptional(opts))
      THEN Settled(Return(Undefined))
      ELSE IF Falsy(apiUrl)
      THEN Settled(Throw(JsError("Error", <<"Missing NEOS_BASE_URL environment variable">>)))
      ELSE IF slug.t # "string" /\ slug.t # "array"
      THEN Settled(Throw(JsError("Error", <<"Missing slug param">>)))
      ELSE Fetch(Str(apiUrl.v \o <<"/neos/content-api/document?path=">>
                     \o encodeURIComponent(path)),
                 buildNeosHeaders, OptsCache(opts))

\* loadDocumentProps without its 404 case: a 404 goes to handleNotOkResponse
\* like any other non-2xx status.
loadDocumentPropsWithout404(response, fetchUrl) ==
  IF ~ResponseOk(response)
  THEN LET h == handleNotOkResponse(response, fetchUrl) IN
       IF h.result.completion = "throw"
       THEN [result |-> h.result, normalizer |-> "raised"]
       ELSE [result |-> ResponseJson(h.response).result, normalizer |-> "returned"]
  ELSE [result |-> ResponseJson(response).result, normalizer |-> "not called"]

\* Lines 41-55: [result, normalizer], normalizer telling whether
\* handleNotOkResponse was called and how it ended.
loadDocumentPropsAfterFetch(response, fetchUrl) ==
  IF ~ResponseOk(response) /\ response.status = 404
  THEN [result |-> Return(Undefined), normalizer |-> "not called"]
  ELSE IF ~ResponseOk(response)
  THEN LET h == handleNotOkResponse(response, fetchUrl) IN
       IF h.result.completion = "throw"
       THEN [result |-> h.result, normalizer |-> "raised"]
       ELSE [result |-> ResponseJson(h.response).result, normalizer |-> "returned"]
  ELSE [result |-> ResponseJson(response).result, normalizer |-> "not called"]

\* Lines 62-80.
loadPreviewDocumentPropsUntilFetch(searchParams, opts) ==
  LET apiUrl == env.NEOS_BASE_URL
      contextPath == searchParams.contextNodePath
  IN  IF Falsy(apiUrl) /\ ~Falsy(OptsOptional(opts))
      THEN Settled(Return(Undefined))
      ELSE IF Falsy(apiUrl)
      THEN Settled(Throw(JsError("Error", <<"Missing NEOS_BASE_URL environment variable">>)))
      ELSE IF contextPath.t # "string"
      THEN Settled(Throw(JsError("Error", <<"Missing context path query parameter">>)))
      ELSE Fetch(Str(apiUrl.v \o <<"/neos/content-api/document?contextPath=">>
                     \o encodeURIComponent(contextPath.v)),
                 buildNeosPreviewHeaders, Str(<<"no-store">>))

\* Lines 82-96.
loadPreviewDocumentPropsAfterFetch(response, fetchUrl) ==
  IF ~ResponseOk(response) /\ response.status = 404
  THEN [result |-> Return(Undefined), normalizer |-> "not called"]
  ELSE IF ~ResponseOk(response)
  THEN LET h == handleNotOkResponse(response, fetchUrl) IN
       IF h.result.completion = "throw"
       THEN [result |-> h.result, normalizer |-> "raised"]
       ELSE [result |-> ResponseJson(h.response).result, normalizer |-> "returned"]
  ELSE [result |-> ResponseJson(response).result, normalizer |-> "not called"]

\* Lines 154-171.
loadSitePropsUntilFetch(opts) ==
  LET apiUrl == env.NEOS_BASE_URL
  IN  IF Falsy(apiUrl) /\ ~Falsy(OptsOptional(opts))
      THEN Settled(Return(Undefined))
      ELSE IF Falsy(apiUrl)
      THEN Settled(Throw(JsError("Error", <<"Missing NEOS_BASE_URL environment variable">>)))
      ELSE Fetch(Str(apiUrl.v \o <<"/neos/content-api/site">>),
                 buildNeosHeaders, OptsCache(opts))

RECURSIVE Messages(_)
\* data.errors.map((e) => e.message)
Messages(errors) ==
  IF errors = <<>> THEN <<>> ELSE <<Head(errors).message>> \o Messages(Tail(errors))

\* Lines 173-180: the !response.ok block, [response, result].
loadSitePropsNotOk(response) ==
  LET json == ResponseJson(response)
      errors == ReadErrors(json.result.value)
  IN  IF json.result.completion = "throw"
      THEN [response |-> json.response, result |-> json.result]
      ELSE IF errors.completion = "throw"
      THEN [response |-> json.response, result |-> errors]
      ELSE IF ~Falsy(errors.value)
      THEN [response |-> json.response,
            result |-> Throw(JsError("Error",
                         <<"Content API responded with error: ">>
                           \o Join(Messages(errors.value.v), ", ")))]
      ELSE [response |-> json.response, result |-> Return(Undefined)]

\* loadSiteProps with the 404 case of the document loaders.
loadSitePropsWith404(response, fetchUrl) ==
  LET checked == IF ~ResponseOk(response) THEN loadSitePropsNotOk(response)
                 ELSE [response |-> response, result |-> Return(Undefined)]
  IN  IF ~ResponseOk(response) /\ response.status = 404
      THEN [result |-> Return(Undefined), normalizer |-> "not called"]
      ELSE IF checked.result.completion = "throw"
      THEN [result |-> checked.result, normalizer |-> "not called"]
      ELSE [result |-> ResponseJson(checked.response).result,
            normalizer |-> "not called"]

\* Lines 173-186.
loadSitePropsAfterFetch(response, fetchUrl) ==
  LET checked == IF ~ResponseOk(response) THEN loadSitePropsNotOk(response)
                 ELSE [response |-> response, result |-> Return(Undefined)]
  IN  IF checked.result.completion = "throw"
      THEN [result |-> checked.result, normalizer |-> "not called"]
      ELSE [result |-> ResponseJson(checked.response).result,
            normalizer |-> "not called"]

(* ------------------------------- inputs -------------------------------- *)

NeosBaseUrl == Str(<<"https", ":", "/", "/", "neos">>)

\* process.env.NEOS_BASE_URL: unset, empty, set.
NeosBaseUrls == {Undefined, Str(<<>>), NeosBaseUrl}

\* process.env.PUBLIC_BASE_URL: unset, or an absolute URL.
PublicBaseUrls ==
  {Undefined,
   Str(<<"https", ":", "/", "/", "pub">>),
   Str(<<"http", ":", "/", "/", "pub", ":", "8080">>)}

\* Options objects: 1 and 3 are two objects with the same fields.
Opts ==
  {Undefined,
   Obj(1, True, Undefined),
   Obj(2, False, Str(<<"force-cache">>)),
   Obj(3, True, Undefined)}

\* params.slug of loadDocumentProps: a string, an array, neither.
Slugs == {Str(<<"a">>), Arr(<< <<"a">>, <<"b">> >>), Undefined}

\* searchParams['node[__contextNodePath]'] of loadPreviewDocumentProps.
ContextPaths == {Str(<<"/", "sites", "/", "c">>), Arr(<< <<"c">> >>), Undefined}

\* The first argument of the memoised wrappers.
RoutePaths == {Undefined, Str(<<>>), Str(<<"/", "a">>)}

ContextNodePaths == {Undefined, Str(<<>>), Str(<<"/", "sites", "/", "c">>)}

Statuses == {200, 404, 500}

Bodies == {BodyErrors, BodyPayload, BodyNull, BodyText}

\* What the backend may answer.
Responses == {Response(st, b) : st \in Statuses, b \in Bodies}

\* The Host header is  uri-host [ ":" port ]  (RFC 7230): a registered name
\* or a bracketed IPv6 literal, then optionally a colon and a port, which
\* may be empty.
HostNames == {<<"example.com">>, <<"[", ":", ":", "1", "]">>}

NoPort == Undefined

Ports == {NoPort, Str(<<>>), Str(<<"8443">>)}

\* The text of the Host header for a host name and a port.
HostHeader(hostname, port) ==
  IF port = NoPort THEN hostname ELSE hostname \o <<":">> \o port.v

\* headers.get('host'): null when the header is absent.
IncomingHosts ==
  {Null, Str(<<>>)} \cup {Str(HostHeader(h, p)) : h \in HostNames, p \in Ports}

IncomingProtos == {Null, Str(<<"https">>), Str(<<"http">>), Str(<<"wss">>)}

IncomingCookies == {Null, Str(<<"session=1">>)}

(* ------------------------------- actions ------------------------------- *)

Promise(id) == [t |-> "promise", id |-> id]

Pending == [completion |-> "pending", value |-> Undefined]

NoResponse == [status |-> 0, body |-> <<>>, bodyUsed |-> FALSE]

\* The activation of loader fn, made by call number by, after its
\* synchronous part ended as start.
Invocation(fn, by, opts, start) ==
  [fn |-> fn, by |-> by, opts |-> opts, url |-> start.url,
   fetch |-> IF start.kind = "fetch" THEN "pending" ELSE "none",
   response |-> NoResponse,
   result |-> IF start.kind = "fetch" THEN Pending ELSE start.result,
   normalizer |-> "not called"]

\* A loader is called: its synchronous part runs, to a settled result or to
\* the fetch it issues and awaits.
Activate(fn, opts, start) ==
  LET id == Len(invocations) + 1 IN
  /\ invocations' = Append(invocations, Invocation(fn, Len(calls) + 1, opts, start))
  /\ requests' = IF start.kind = "fetch"
                 THEN Append(requests, [by |-> id, url |-> start.url,
                                        headers |-> start.headers,
                                        cache |-> start.cache])
                 ELSE requests

loadDocumentProps(params, opts) ==
  /\ Len(calls) < MaxLoads
  /\ Activate("loadDocumentProps", opts, loadDocumentPropsUntilFetch(params, opts))
  /\ calls' = Append(calls, [fn |-> "loadDocumentProps", arg |-> params.slug,
                             opts |-> opts, hit |-> FALSE,
                             value |-> Promise(Len(invocations) + 1)])
  /\ UNCHANGED <<env, incoming, memo>>

loadPreviewDocumentProps(searchParams, opts) ==
  /\ Len(calls) < MaxLoads
  /\ Activate("loadPreviewDocumentProps", opts,
              loadPreviewDocumentPropsUntilFetch(searchParams, opts))
  /\ calls' = Append(calls, [fn |-> "loadPreviewDocumentProps",
                             arg |-> searchParams.contextNodePath,
                             opts |-> opts, hit |-> FALSE,
                             value |-> Promise(Len(invocations) + 1)])
  /\ UNCHANGED <<env, incoming, memo>>

loadSiteProps(opts) ==
  /\ Len(calls) < MaxLoads
  /\ Activate("loadSiteProps", opts, loadSitePropsUntilFetch(opts))
  /\ calls' = Append(calls, [fn |-> "loadSiteProps", arg |-> Undefined,
                             opts |-> opts, hit |-> FALSE,
                             value |-> Promise(Len(invocations) + 1)])
  /\ UNCHANGED <<env, incoming, memo>>

\* The rest of loader fn once its fetch resolved with response.
AfterFetch(fn, response, fetchUrl) ==
  CASE fn = "loadDocumentProps" -> loadDocumentPropsAfterFetch(response, fetchUrl)
    [] fn = "loadPreviewDocumentProps" ->
         loadPreviewDocumentPropsAfterFetch(response, fetchUrl)
    [] fn = "loadSiteProps" -> loadSitePropsAfterFetch(response, fetchUrl)

\* The fetch of invocation i resolves with a response and the loader runs on
\* to its end: its remaining awaits read the body of this response only,
\* which no other activation holds.
FetchFulfilled(i, response) ==
  /\ invocations[i].fetch = "pending"
  /\ LET after == AfterFetch(invocations[i].fn, response, invocations[i].url) IN
     invocations' = [invocations EXCEPT ![i] =
                       [@ EXCEPT !.fetch = "fulfilled", !.response = response,
                                 !.result = after.result,
                                 !.normalizer = after.normalizer]]
  /\ UNCHANGED <<env, incoming, calls, requests, memo>>

\* A loader that answers a rejected fetch by issuing the fetch again.
FetchRejectedRetries(i) ==
  /\ invocations[i].fetch = "pending"
  /\ requests' = Append(requests, requests[CHOOSE r \in DOMAIN requests :
                                             requests[r].by = i])
  /\ UNCHANGED <<env, incoming, calls, invocations, memo>>

\* The fetch of invocation i rejects (a network failure): the await throws
\* and nothing catches it.
FetchRejected(i) ==
  /\ invocations[i].fetch = "pending"
  /\ invocations' = [invocations EXCEPT ![i] =
                       [@ EXCEPT !.fetch = "rejected",
                                 !.result = Throw(JsError("TypeError", <<"fetch failed">>))]]
  /\ UNCHANGED <<env, incoming, calls, requests, memo>>

(* ------------------------ the memoised wrappers ------------------------ *)

\* React's cache(fn): the entries memoised for function fn and these
\* arguments (arguments are compared by identity).
CacheLookup(fn, args) == {e \in memo : e.fn = fn /\ e.args = args}

\* The function given to cache guarding against undefined only, not against
\* the empty string.
loadDocumentPropsCachedFnUndefinedOnly(routePath, opts) ==
  IF routePath.t = "undefined"
  THEN [invoke |-> FALSE, start |-> Settled(Return(Undefined))]
  ELSE LET slug == Arr(NonEmpty(Split(routePath.v, "/")))
       IN  [invoke |-> TRUE,
            start |-> loadDocumentPropsUntilFetch([slug |-> slug], opts)]

\* Lines 119-126, the function given to cache: whether it calls the loader,
\* and the loader's synchronous part if it does.
loadDocumentPropsCachedFn(routePath, opts) ==
  IF Falsy(routePath)
  THEN [invoke |-> FALSE, start |-> Settled(Return(Undefined))]
  ELSE LET slug == Arr(NonEmpty(Split(routePath.v, "/")))
       IN  [invoke |-> TRUE,
            start |-> loadDocumentPropsUntilFetch([slug |-> slug], opts)]

\* Lines 130-137, the function given to cache.
loadPreviewDocumentPropsCachedFn(contextNodePath, opts) ==
  IF Falsy(contextNodePath)
  THEN [invoke |-> FALSE, start |-> Settled(Return(Undefined))]
  ELSE LET searchParams == [contextNodePath |-> contextNodePath]
       IN  [invoke |-> TRUE,
            start |-> loadPreviewDocumentPropsUntilFetch(searchParams, opts)]

\* A call of the function cache(...) returns, inside a render pass: a
\* memoised entry for the same arguments is returned as it is; otherwise the
\* function runs, and what it returns (undefined, or the loader's promise)
\* is memoised for these arguments and returned.
cache(name, loader, arg, opts, fn) ==
  LET hits == CacheLookup(name, <<arg, opts>>)
      value == IF fn.invoke THEN Promise(Len(invocations) + 1) ELSE Undefined
  IN  IF hits # {}
      THEN /\ calls' = Append(calls, [fn |-> name, arg |-> arg, opts |-> opts,
                                      hit |-> TRUE,
                                      value |-> (CHOOSE e \in hits : TRUE).value])
           /\ UNCHANGED <<invocations, requests, memo>>
      ELSE /\ IF fn.invoke
              THEN Activate(loader, opts, fn.start)
              ELSE UNCHANGED <<invocations, requests>>
           /\ calls' = Append(calls, [fn |-> name, arg |-> arg, opts |-> opts,
                                      hit |-> FALSE, value |-> value])
           /\ memo' = memo \cup {[fn |-> name, args |-> <<arg, opts>>, value |-> value]}

\* loadDocumentPropsCached defined without cache(...): every call runs the
\* function.
loadDocumentPropsNotMemoised(routePath, opts) ==
  LET fn == loadDocumentPropsCachedFn(routePath, opts) IN
  /\ Len(calls) < MaxCalls
  /\ IF fn.invoke
     THEN Activate("loadDocumentProps", opts, fn.start)
     ELSE UNCHANGED <<invocations, requests>>
  /\ calls' = Append(calls, [fn |-> "loadDocumentPropsCached", arg |-> routePath,
                             opts |-> opts, hit |-> FALSE,
                             value |-> IF fn.invoke
                                       THEN Promise(Len(invocations) + 1)
                                       ELSE Undefined])
  /\ UNCHANGED <<env, incoming, memo>>

loadDocumentPropsCached(routePath, opts) ==
  /\ Len(calls) < MaxCalls
  /\ cache("loadDocumentPropsCached", "loadDocumentProps", routePath, opts,
           loadDocumentPropsCachedFn(routePath, opts))
  /\ UNCHANGED <<env, incoming>>

loadPreviewDocumentPropsCached(contextNodePath, opts) ==
  /\ Len(calls) < MaxCalls
  /\ cache("loadPreviewDocumentPropsCached", "loadPreviewDocumentProps",
           contextNodePath, opts,
           loadPreviewDocumentPropsCachedFn(contextNodePath, opts))
  /\ UNCHANGED <<env, incoming>>

(* --------------------------- specifications ---------------------------- *)

TypicalIncoming ==
  [cookie |-> Str(<<"session=1">>), host |-> Str(<<"example.com", ":", "8443">>),
   proto |-> Null]

Init ==
  /\ env \in [NEOS_BASE_URL : NeosBaseUrls,
              PUBLIC_BASE_URL : {Undefined, Str(<<"https", ":", "/", "/", "pub">>)}]
  /\ incoming = TypicalIncoming
  /\ calls = <<>>
  /\ invocations = <<>>
  /\ requests = <<>>
  /\ memo = {}

Next ==
  \/ \E slug \in Slugs, opts \in Opts : loadDocumentProps([slug |-> slug], opts)
  \/ \E contextPath \in ContextPaths, opts \in Opts :
       loadPreviewDocumentProps([contextNodePath |-> contextPath], opts)
  \/ \E opts \in Opts : loadSiteProps(opts)
  \/ \E i \in DOMAIN invocations, response \in Responses : FetchFulfilled(i, response)
  \/ \E i \in DOMAIN invocations : FetchRejected(i)

\* The loaders called directly.
Spec == Init /\ [][Next]_vars

InitCached ==
  /\ env \in [NEOS_BASE_URL : NeosBaseUrls, PUBLIC_BASE_URL : {Undefined}]
  /\ incoming = TypicalIncoming
  /\ calls = <<>>
  /\ invocations = <<>>
  /\ requests = <<>>
  /\ memo = {}

\* The options the wrappers are called with.
CachedOpts == {Undefined, Obj(1, True, Undefined), Obj(3, True, Undefined)}

NextCached ==
  \/ \E routePath \in RoutePaths, opts \in CachedOpts :
       loadDocumentPropsCached(routePath, opts)
  \/ \E contextNodePath \in ContextNodePaths, opts \in CachedOpts :
       loadPreviewDocumentPropsCached(contextNodePath, opts)
  \/ \E i \in DOMAIN invocations, response \in Responses : FetchFulfilled(i, response)
  \/ \E i \in DOMAIN invocations : FetchRejected(i)

\* One render pass calling the memoised wrappers.
SpecCached == InitCached /\ [][NextCached]_vars

InitHeaders ==
  /\ env \in [NEOS_BASE_URL : {NeosBaseUrl}, PUBLIC_BASE_URL : PublicBaseUrls]
  /\ incoming \in [cookie : IncomingCookies, host : IncomingHosts,
                   proto : IncomingProtos]
  /\ calls = <<>>
  /\ invocations = <<>>
  /\ requests = <<>>
  /\ memo = {}

NextHeaders ==
  \/ \E slug \in Slugs, opts \in Opts : loadDocumentProps([slug |-> slug], opts)
  \/ \E contextPath \in ContextPaths, opts \in Opts :
       loadPreviewDocumentProps([contextNodePath |-> contextPath], opts)

\* The headers of the requests the loaders issue, over the configurations
\* and the incoming requests of the model.
SpecHeaders == InitHeaders /\ [][NextHeaders]_vars

(* ------------------------------- claims -------------------------------- *)

DocumentLoaders == {"loadDocumentProps", "loadPreviewDocumentProps"}

Wrappers == {"loadDocumentPropsCached", "loadPreviewDocumentPropsCached"}

\* The requests issued by invocation i.
RequestsOf(i) == {r \in DOMAIN requests : requests[r].by = i}

\* The requests issued by the invocations that the calls ks made.
RequestsOfCalls(ks) ==
  {r \in DOMAIN requests : invocations[requests[r].by].by \in ks}

\* Invocation v received a non-2xx response other than 404.
FailedResponse(v) ==
  v.fetch = "fulfilled" /\ ~ResponseOk(v.response) /\ v.response.status # 404

ConfigurationError ==
  JsError("Error", <<"Missing NEOS_BASE_URL environment variable">>)

\* C1: a document or preview loader whose fetch was answered with status 404
\* ends by returning undefined, whatever the body of the response.
C1_NotFoundReturnsUndefined ==
  \A i \in DOMAIN invocations :
    LET v == invocations[i] IN
    (v.fn \in DocumentLoaders /\ v.fetch = "fulfilled" /\ v.response.status = 404)
      => v.result = Return(Undefined)

\* A document loader was answered 404 with a structured error body and
\* returned undefined.
C1_Witness ==
  \E i \in DOMAIN invocations :
    /\ invocations[i].fn = "loadDocumentProps"
    /\ invocations[i].fetch = "fulfilled"
    /\ invocations[i].response = Response(404, BodyErrors)
    /\ invocations[i].result = Return(Undefined)

\* C2: a document or preview loader answered with a non-2xx, non-404 status
\* and a JSON body holding an errors array raises the ApiError "Content API
\* responded with errors" with the status, the request URL and that array.
C2_StructuredErrorRaised ==
  \A i \in DOMAIN invocations :
    LET v == invocations[i]
        data == JSONParse(v.response.body)
    IN  (/\ v.fn \in DocumentLoaders
         /\ FailedResponse(v)
         /\ data.completion = "return"
         /\ data.value.t = "data"
         /\ data.value.errors.t = "array")
          => /\ v.result.completion = "throw"
             /\ v.result.value.name = "ApiError"
             /\ v.result.value.message = <<"Content API responded with errors">>
             /\ v.result.value.status = v.response.status
             /\ v.result.value.url = v.url
             /\ v.result.value.errors = data.value.errors

\* C3: a document or preview loader answered with a non-2xx, non-404 status
\* and a body that is not JSON, or is JSON without errors, raises the ApiError
\* "Content API responded with unexpected error" with the status, the request
\* URL, no structured errors and the raw body text.
C3_RawTextErrorRaised ==
  \A i \in DOMAIN invocations :
    LET v == invocations[i]
        data == JSONParse(v.response.body)
    IN  (/\ v.fn \in DocumentLoaders
         /\ FailedResponse(v)
         /\ \/ data.completion = "throw"
            \/ data.value.t = "data" /\ data.value.errors.t = "undefined")
          => v.result = Throw(ApiError(<<"Content API responded with unexpected error">>,
                                       v.response.status, v.url, Undefined,
                                       Str(v.response.body)))

\* C5: with NEOS_BASE_URL unset every loader ends without a fetch, and before
\* it looks at its arguments: returning undefined when optional is set,
\* raising the configuration error when it is not.
C5_UnsetBaseUrl ==
  \A i \in DOMAIN invocations :
    LET v == invocations[i] IN
    env.NEOS_BASE_URL = Undefined
      => /\ v.fetch = "none"
         /\ RequestsOf(i) = {}
         /\ v.result = IF OptsOptional(v.opts) = True
                       THEN Return(Undefined) ELSE Throw(ConfigurationError)

\* With NEOS_BASE_URL unset the document loader was called with an invalid
\* slug and optional: false, and raised the configuration error.
C5_Witness ==
  /\ env.NEOS_BASE_URL = Undefined
  /\ \E i \in DOMAIN invocations :
       /\ invocations[i].fn = "loadDocumentProps"
       /\ calls[invocations[i].by].arg = Undefined
       /\ OptsOptional(invocations[i].opts) = False
       /\ invocations[i].result = Throw(ConfigurationError)
       /\ requests = <<>>

\* C6: the site loader answered with any non-2xx status, 404 included, and
\* any body ends by raising.
C6_SiteNotOkRaises ==
  \A i \in DOMAIN invocations :
    LET v == invocations[i] IN
    (v.fn = "loadSiteProps" /\ v.fetch = "fulfilled" /\ ~ResponseOk(v.response))
      => v.result.completion = "throw"

\* The site loader was answered 404 with a JSON body without errors and
\* raised.
C6_Witness ==
  \E i \in DOMAIN invocations :
    /\ invocations[i].fn = "loadSiteProps"
    /\ invocations[i].response = Response(404, BodyPayload)
    /\ invocations[i].result.completion = "throw"

\* C7: with no PUBLIC_BASE_URL the preview headers follow the incoming Host:
\* with a port, X-Forwarded-Host is the host name, X-Forwarded-Port the port
\* and X-Forwarded-Proto is not set; without one, X-Forwarded-Port is 443 for
\* https and 80 otherwise and X-Forwarded-Proto the incoming protocol or
\* http; with no Host header only Cookie is set.
C7_PreviewHeadersFromHost ==
  \A r \in DOMAIN requests :
    LET sent == requests[r].headers IN
    (invocations[requests[r].by].fn = "loadPreviewDocumentProps"
     /\ env.PUBLIC_BASE_URL = Undefined)
      => /\ incoming.host = Null => DOMAIN sent = {"Cookie"}
         /\ \A h \in HostNames, p \in Ports :
              incoming.host = Str(HostHeader(h, p))
                => IF p # NoPort /\ p.v # <<>>
                   THEN /\ DOMAIN sent =
                             {"Cookie", "X-Forwarded-Host", "X-Forwarded-Port"}
                        /\ sent["X-Forwarded-Host"] = h
                        /\ sent["X-Forwarded-Port"] = p.v
                   ELSE /\ {"X-Forwarded-Port", "X-Forwarded-Proto"} \subseteq DOMAIN sent
                        /\ sent["X-Forwarded-Port"] =
                             IF incoming.proto = Str(<<"https">>)
                             THEN <<"443">> ELSE <<"80">>
                        /\ sent["X-Forwarded-Proto"] =
                             IF incoming.proto.t = "string"
                             THEN incoming.proto.v ELSE <<"http">>


\* C9: handleNotOkResponse never returns normally, so a document or preview
\* loader answered with a non-2xx status other than 404 ends by raising, never
\* with a payload.
C9_NormalizerAlwaysRaises ==
  \A i \in DOMAIN invocations :
    LET v == invocations[i] IN
    /\ v.normalizer # "returned"
    /\ (v.fn \in DocumentLoaders /\ FailedResponse(v))
         => v.normalizer = "raised" /\ v.result.completion = "throw"

\* A preview loader was answered 500 with a JSON body without errors, the
\* normaliser was called and raised.
C9_Witness ==
  \E i \in DOMAIN invocations :
    /\ invocations[i].fn = "loadPreviewDocumentProps"
    /\ invocations[i].response = Response(500, BodyPayload)
    /\ invocations[i].normalizer = "raised"
    /\ invocations[i].result.completion = "throw"

\* C10: an invocation of a loader issues at most one fetch, and once that
\* fetch rejected or was answered with a non-2xx status the invocation has
\* ended: with an error, or with undefined for a 404.
C10_NoRetry ==
  \A i \in DOMAIN invocations :
    LET v == invocations[i] IN
    /\ Cardinality(RequestsOf(i)) <= 1
    /\ (v.fetch = "rejected" \/ (v.fetch = "fulfilled" /\ ~ResponseOk(v.response)))
         => \/ v.result.completion = "throw"
            \/ v.response.status = 404 /\ v.result = Return(Undefined)

\* The fetch of a loader rejected; the loader raised and had issued that one
\* fetch.
C10_Witness ==
  \E i \in DOMAIN invocations :
    /\ invocations[i].fetch = "rejected"
    /\ invocations[i].result.completion = "throw"
    /\ Cardinality(RequestsOf(i)) = 1

\* Calls j and k are calls of loadDocumentPropsCached with the same route
\* path and the same options (the same object, or none both times).
SameDocumentCall(j, k) ==
  /\ calls[j].fn = "loadDocumentPropsCached"
  /\ calls[k].fn = "loadDocumentPropsCached"
  /\ calls[j].arg = calls[k].arg
  /\ calls[j].opts = calls[k].opts

\* C4: two calls of loadDocumentPropsCached in one render pass with the same
\* route path and the same options get the same result and issue at most one
\* fetch between them.
C4_MemoisedOnce ==
  \A j \in DOMAIN calls, k \in DOMAIN calls :
    (j < k /\ SameDocumentCall(j, k))
      => /\ calls[j].value = calls[k].value
         /\ Cardinality(RequestsOfCalls({j, k})) <= 1

\* The second of two identical calls was made while the fetch of the first
\* is still in flight, and got the first call's promise.
C4_Witness ==
  \E j \in DOMAIN calls, k \in DOMAIN calls :
    /\ j < k /\ SameDocumentCall(j, k)
    /\ calls[j].value.t = "promise"
    /\ calls[k].value = calls[j].value
    /\ invocations[calls[j].value.id].fetch = "pending"
    /\ Cardinality(RequestsOfCalls({j, k})) = 1

\* Call k is a call of a memoised wrapper with an undefined or empty
\* identifier.
EmptyIdentifierCall(k) == calls[k].fn \in Wrappers /\ Falsy(calls[k].arg)

\* C8: a memoised wrapper called with an undefined or empty identifier
\* returns undefined, the identifier never becomes a key of the memo cache,
\* and no fetch is issued.
C8_EmptyIdentifierNeverCached ==
  \A k \in DOMAIN calls :
    EmptyIdentifierCall(k)
      => /\ calls[k].value = Undefined
         /\ RequestsOfCalls({k}) = {}
         /\ ~\E e \in memo : e.fn = calls[k].fn /\ e.args[1] = calls[k].arg

\* C8 as amended: a memoised wrapper called with an undefined or empty
\* identifier returns undefined without calling the loader and without a
\* fetch; the identifier is a key of the memo cache, memoised as undefined.
C8_EmptyIdentifierShortCircuits ==
  \A k \in DOMAIN calls :
    EmptyIdentifierCall(k)
      => /\ calls[k].value = Undefined
         /\ \A i \in DOMAIN invocations : invocations[i].by # k
         /\ RequestsOfCalls({k}) = {}
         /\ [fn |-> calls[k].fn, args |-> <<calls[k].arg, calls[k].opts>>,
             value |-> Undefined] \in memo

\* loadDocumentPropsCached was called with the empty string and returned
\* undefined; nothing was fetched.
C8_Witness ==
  \E k \in DOMAIN calls :
    /\ calls[k].fn = "loadDocumentPropsCached"
    /\ calls[k].arg = Str(<<>>)
    /\ calls[k].value = Undefined
    /\ requests = <<>>

====
